---- MODULE Spec2Model ----
(***************************************************************************)
(* dbvi: modal (vi-like) terminal client for running database queries.     *)
(* Model of src/main.rs: the Session (struct State), the translation of    *)
(* input events into commands (handle_input), the execution of commands    *)
(* against the query client (handle_command) and the run loop (run_app).   *)
(*                                                                         *)
(* Text is modelled as a sequence of pieces: the query buffer is a         *)
(* sequence of characters, literal messages are one piece each.            *)
(***************************************************************************)
EXTENDS Integers, Sequences, FiniteSets, TLC

\* Longest query buffer the input source is allowed to build (String is unbounded).
MaxLen == 2
\* Largest number of rows the query client returns in one answer.
MaxRows == 1

VARIABLES
    state,      \* struct State: is_running, mode, status, query, result
    pc,         \* position of the thread of control
    ev,         \* run_app: `ev`, the event last read
    cmd,        \* run_app: `cmd`, the command last returned by handle_input
    stack,      \* handle_command: remaining elements of every active invocation
    inflight,   \* handle_command: `raw_query` handed to the query client
    fetched,    \* handle_command: value the awaited fetch_all call returned
    returned,   \* handle_command: io::Result the outermost invocation returned
    ret_to,     \* position the outermost handle_command invocation returns to
    term,       \* the terminal: raw mode, alternate screen, calls that changed them
    source      \* the input source: the events it will deliver, when that is fixed

vars == <<state, pc, ev, cmd, stack, inflight, fetched, returned, ret_to, term, source>>

----------------------------------------------------------------------------
\* Data model

Modes == {"Normal", "Insert"}

\* Characters a Char key can carry: the two with a meaning in Normal mode and a plain one.
Chars == {"q", "i", "a"}

\* Command enum.  Every variant carries all fields so that variants compare.
RunQuery(text) == [tag |-> "RunQuery", text |-> text, cmds |-> <<>>]
Chain(cmds) == [tag |-> "Chain", text |-> <<>>, cmds |-> cmds]
None == [tag |-> "None", text |-> <<>>, cmds |-> <<>>]
Quit == [tag |-> "Quit", text |-> <<>>, cmds |-> <<>>]
\* `cmd` before handle_input has returned anything.
NoCmd == [tag |-> "-", text |-> <<>>, cmds |-> <<>>]

\* crossterm events: a key event carries a code (with the character of a Char)
\* and a kind; every other event is reduced to its type.
KeyKinds == {"Press", "Release"}
Key(code, ch, kind) == [type |-> "Key", code |-> code, ch |-> ch, kind |-> kind]
NonKey(type) == [type |-> type, code |-> "-", ch |-> "-", kind |-> "-"]
NoEvent == NonKey("-")
CharKeys == {Key("Char", c, k) : c \in Chars, k \in KeyKinds}
OtherKeys == {Key(code, "-", k) : code \in {"Esc", "Enter", "Backspace", "Tab"}, k \in KeyKinds}
NonKeyEvents == {NonKey(t) : t \in {"Resize", "Mouse", "FocusGained"}}
Events == CharKeys \cup OtherKeys \cup NonKeyEvents

\* Strings over a set, up to a length.
RECURSIVE StrsUpTo(_, _)
StrsUpTo(S, n) ==
    IF n = 0 THEN {<<>>}
    ELSE LET shorter == StrsUpTo(S, n - 1)
         IN  shorter \cup {Append(s, c) : s \in {t \in shorter : Len(t) = n - 1}, c \in S}

\* Messages written into status.
\* (the source quotes the q with grave accents, written here as apostrophes)
Welcome == <<"Welcome to dbvi! Press 'q' to quit.">>
SuccessMsg == <<"Query executed successfully">>
\* format!("Failed to run query: {}", err): the prefix followed by the error's Display text.
FailMsg(err) == <<"Failed to run query: ">> \o <<err>>

\* The query client (sqlx fetch_all): rows are opaque, failures are descriptions.
Rows == {"PgRow#1", "PgRow#2"}
Errors == {"syntax error", "connection closed"}
FetchOk(rows) == [ok |-> TRUE, rows |-> rows, err |-> "-"]
FetchErr(err) == [ok |-> FALSE, rows |-> <<>>, err |-> err]
NoFetch == [ok |-> FALSE, rows |-> <<>>, err |-> "-"]
Responses == {FetchOk(rs) : rs \in StrsUpTo(Rows, MaxRows)} \cup {FetchErr(e) : e \in Errors}

\* format!("{:?}", results) of a Vec: "[", the elements' Debug text separated by ", ", "]".
RECURSIVE JoinRows(_)
JoinRows(rows) ==
    IF rows = <<>> THEN <<>>
    ELSE IF Len(rows) = 1 THEN <<Head(rows)>>
    ELSE <<Head(rows), ", ">> \o JoinRows(Tail(rows))
FormatRows(rows) == <<"[">> \o JoinRows(rows) \o <<"]">>

\* State::new
NewState ==
    [is_running |-> TRUE, mode |-> "Normal", status |-> Welcome, query |-> <<>>, result |-> <<>>]

----------------------------------------------------------------------------
\* handle_input

\* String::pop: drops the last character, nothing to drop from the empty string.
PopClears(s) == <<>>
Pop(s) == IF s = <<>> THEN s ELSE SubSeq(s, 1, Len(s) - 1)

NormalKeyIClears(st, key) ==
    IF key.code = "Char" /\ key.ch = "q" THEN [state |-> st, cmd |-> Quit]
    ELSE IF key.code = "Char" /\ key.ch = "i"
         THEN [state |-> [st EXCEPT !.mode = "Insert", !.query = <<>>], cmd |-> None]
    ELSE [state |-> st, cmd |-> None]
NormalKeyBackspacePops(st, key) ==
    IF key.code = "Char" /\ key.ch = "q" THEN [state |-> st, cmd |-> Quit]
    ELSE IF key.code = "Char" /\ key.ch = "i"
         THEN [state |-> [st EXCEPT !.mode = "Insert"], cmd |-> None]
    ELSE IF key.code = "Backspace" THEN [state |-> [st EXCEPT !.query = Pop(@)], cmd |-> None]
    ELSE [state |-> st, cmd |-> None]
NormalKeyQuitsItself(st, key) ==
    IF key.code = "Char" /\ key.ch = "q"
    THEN [state |-> [st EXCEPT !.is_running = FALSE], cmd |-> Quit]
    ELSE IF key.code = "Char" /\ key.ch = "i"
         THEN [state |-> [st EXCEPT !.mode = "Insert"], cmd |-> None]
    ELSE [state |-> st, cmd |-> None]
NormalKey(st, key) ==
    IF key.code = "Char" /\ key.ch = "q" THEN [state |-> st, cmd |-> Quit]
    ELSE IF key.code = "Char" /\ key.ch = "i"
         THEN [state |-> [st EXCEPT !.mode = "Insert"], cmd |-> None]
    ELSE [state |-> st, cmd |-> None]

\* Variants of InsertKey: one arm differs.
InsertKeyWith(st, key, onEsc, onChar, onEnter) ==
    CASE key.code = "Esc" -> onEsc
      [] key.code = "Char" -> onChar
      [] key.code = "Enter" -> onEnter
      [] key.code = "Backspace" -> [state |-> [st EXCEPT !.query = Pop(@)], cmd |-> None]
      [] OTHER -> [state |-> st, cmd |-> None]
InsertKeyTakesQuery(st, key) ==
    InsertKeyWith(st, key,
        [state |-> [st EXCEPT !.mode = "Normal"], cmd |-> None],
        [state |-> [st EXCEPT !.query = Append(@, key.ch)], cmd |-> None],
        [state |-> [st EXCEPT !.mode = "Normal", !.query = <<>>], cmd |-> RunQuery(st.query)])
InsertKeyPrepends(st, key) ==
    InsertKeyWith(st, key,
        [state |-> [st EXCEPT !.mode = "Normal"], cmd |-> None],
        [state |-> [st EXCEPT !.query = <<key.ch>> \o @], cmd |-> None],
        [state |-> [st EXCEPT !.mode = "Normal"], cmd |-> RunQuery(st.query)])
InsertKeyEscDiscards(st, key) ==
    InsertKeyWith(st, key,
        [state |-> [st EXCEPT !.mode = "Normal", !.query = <<>>], cmd |-> None],
        [state |-> [st EXCEPT !.query = Append(@, key.ch)], cmd |-> None],
        [state |-> [st EXCEPT !.mode = "Normal"], cmd |-> RunQuery(st.query)])
InsertKeySubmitsOnChar(st, key) ==
    InsertKeyWith(st, key,
        [state |-> [st EXCEPT !.mode = "Normal"], cmd |-> None],
        [state |-> [st EXCEPT !.query = Append(@, key.ch)], cmd |-> RunQuery(Append(st.query, key.ch))],
        [state |-> [st EXCEPT !.mode = "Normal"], cmd |-> RunQuery(st.query)])
InsertKeyQQuits(st, key) ==
    InsertKeyWith(st, key,
        [state |-> [st EXCEPT !.mode = "Normal"], cmd |-> None],
        IF key.ch = "q" THEN [state |-> st, cmd |-> Quit]
        ELSE [state |-> [st EXCEPT !.query = Append(@, key.ch)], cmd |-> None],
        [state |-> [st EXCEPT !.mode = "Normal"], cmd |-> RunQuery(st.query)])
InsertKey(st, key) ==
    CASE key.code = "Esc" -> [state |-> [st EXCEPT !.mode = "Normal"], cmd |-> None]
      [] key.code = "Char" -> [state |-> [st EXCEPT !.query = Append(@, key.ch)], cmd |-> None]
      [] key.code = "Enter" ->
            [state |-> [st EXCEPT !.mode = "Normal"], cmd |-> RunQuery(st.query)]
      [] key.code = "Backspace" -> [state |-> [st EXCEPT !.query = Pop(@)], cmd |-> None]
      [] OTHER -> [state |-> st, cmd |-> None]

HandleInput(st, event) ==
    IF event.type # "Key" THEN [state |-> st, cmd |-> None]
    ELSE IF st.mode = "Normal" THEN NormalKey(st, event)
    ELSE InsertKey(st, event)

\* The input source delivers a character to a full buffer no more (bound of the model).
Deliverable(st, event) ==
    (event.type = "Key" /\ event.code = "Char" /\ st.mode = "Insert") => Len(st.query) < MaxLen

----------------------------------------------------------------------------
\* handle_command

\* Arms of the match on the awaited fetch_all result.
RunQueryOkKeepsQuery(st, rows) ==
    [st EXCEPT !.result = FormatRows(rows), !.status = SuccessMsg]
RunQueryOk(st, rows) ==
    [st EXCEPT !.result = FormatRows(rows), !.status = SuccessMsg, !.query = <<>>]
RunQueryErrClearsQuery(st, err) ==
    [st EXCEPT !.result = <<>>, !.status = FailMsg(err), !.query = <<>>]
RunQueryErr(st, err) ==
    [st EXCEPT !.result = <<>>, !.status = FailMsg(err)]
RunQueryArm(st, resp) ==
    IF resp.ok THEN RunQueryOk(st, resp.rows) ELSE RunQueryErr(st, resp.err)
\* What the invocation returns after the match: Ok(()) whatever the client answered.
RunQueryResultPropagates(resp) == IF resp.ok THEN "Ok" ELSE "Err"
RunQueryResult(resp) == "Ok"

QuitArmToggles(st) == [st EXCEPT !.is_running = ~@]
QuitArmClearsQuery(st) == [st EXCEPT !.is_running = FALSE, !.query = <<>>]
QuitArm(st) == [st EXCEPT !.is_running = FALSE]

\* An invocation has completed with value v: the caller applies `?` to it.  An Err
\* abandons every enclosing Chain loop; an Ok resumes the innermost one.
Complete(v) ==
    IF v = "Err"
    THEN /\ stack' = <<>>
         /\ returned' = "Err"
         /\ pc' = ret_to
    ELSE /\ stack' = stack
         /\ returned' = returned
         /\ pc' = "command"

\* for cmd in cmds: the loop takes the elements front to back.
NextElementFromBack(frame) == frame[Len(frame)]
NextElement(frame) == Head(frame)

\* One step of handle_command: the innermost active loop takes its next element,
\* or, having none left, returns Ok(()) to its caller.
CommandStep ==
    /\ pc = "command"
    /\ LET top == stack[Len(stack)]
           below == SubSeq(stack, 1, Len(stack) - 1)
       IN  IF top = <<>>
           THEN /\ stack' = below
                /\ state' = state
                /\ inflight' = inflight
                /\ IF below = <<>>
                   THEN pc' = ret_to /\ returned' = "Ok"
                   ELSE pc' = "command" /\ returned' = returned
           ELSE LET c == NextElement(top)
                    rest == Append(below, Tail(top))
                IN  CASE c.tag = "RunQuery" ->
                            /\ inflight' = c.text
                            /\ pc' = "await"
                            /\ stack' = rest
                            /\ UNCHANGED <<state, returned>>
                      [] c.tag = "Quit" ->
                            /\ state' = QuitArm(state)
                            /\ pc' = "command"
                            /\ stack' = rest
                            /\ UNCHANGED <<inflight, returned>>
                      [] c.tag = "Chain" ->
                            /\ stack' = Append(rest, c.cmds)
                            /\ pc' = "command"
                            /\ UNCHANGED <<state, inflight, returned>>
                      [] OTHER ->
                            /\ pc' = "command"
                            /\ stack' = rest
                            /\ UNCHANGED <<state, inflight, returned>>
    /\ UNCHANGED <<ev, cmd, fetched, ret_to, term, source>>

\* The awaited query client call returns; the match arm is applied.
QueryReturns ==
    /\ pc = "await"
    /\ \E resp \in Responses :
          /\ fetched' = resp
          /\ state' = RunQueryArm(state, resp)
          /\ Complete(RunQueryResult(resp))
    /\ UNCHANGED <<ev, cmd, inflight, ret_to, term, source>>

----------------------------------------------------------------------------
\* The collaborators of the run loop

\* The input source delivers any event at any time, or the events of a fixed
\* sequence in order and nothing after them.
Unscripted == [scripted |-> FALSE, events |-> <<>>, next |-> 1]
Scripted(events) == [scripted |-> TRUE, events |-> events, next |-> 1]
Offered ==
    IF ~source.scripted THEN Events
    ELSE IF source.next <= Len(source.events) THEN {source.events[source.next]}
    ELSE {}
Taken == IF source.scripted THEN [source EXCEPT !.next = @ + 1] ELSE source

\* The terminal before main has touched it, and as App::new leaves it on success.
TermInit == [raw |-> FALSE, alt |-> FALSE, enabled |-> 0, restored |-> 0]
TermReady == [raw |-> TRUE, alt |-> TRUE, enabled |-> 1, restored |-> 0]

----------------------------------------------------------------------------
\* run_app

WhileCheck ==
    /\ pc = "while"
    /\ pc' = IF state.is_running THEN "draw" ELSE "done"
    /\ UNCHANGED <<state, ev, cmd, stack, inflight, fetched, returned, ret_to, term, source>>

\* terminal.draw(..)?
Draw ==
    /\ pc = "draw"
    /\ \E ok \in BOOLEAN : pc' = IF ok THEN "poll" ELSE "io_error"
    /\ UNCHANGED <<state, ev, cmd, stack, inflight, fetched, returned, ret_to, term, source>>

\* event::poll(200ms)?
Poll ==
    /\ pc = "poll"
    /\ \E r \in {"ready", "timeout", "err"} :
          /\ r = "ready" => Offered # {}
          /\ pc' = CASE r = "ready" -> "read" [] r = "timeout" -> "while" [] OTHER -> "io_error"
    /\ UNCHANGED <<state, ev, cmd, stack, inflight, fetched, returned, ret_to, term, source>>

\* event::read()?
Read ==
    /\ pc = "read"
    /\ \/ \E e \in Offered :
             /\ Deliverable(state, e)
             /\ ev' = e
             /\ source' = Taken
             /\ pc' = "input"
       \/ ev' = ev /\ source' = source /\ pc' = "io_error"
    /\ UNCHANGED <<state, cmd, stack, inflight, fetched, returned, ret_to, term>>

\* Input with the command left to run while the loop goes on.
InputWithoutAwait ==
    /\ pc = "input"
    /\ LET r == HandleInput(state, ev)
       IN  /\ state' = r.state
           /\ cmd' = r.cmd
           /\ stack' = <<<<r.cmd>>>>
    /\ returned' = "-"
    /\ ret_to' = "check"
    /\ pc' = "while"
    /\ UNCHANGED <<ev, inflight, fetched, term, source>>

\* let cmd = handle_input(&mut state, ev); handle_command(cmd, ..) is entered.
Input ==
    /\ pc = "input"
    /\ LET r == HandleInput(state, ev)
       IN  /\ state' = r.state
           /\ cmd' = r.cmd
           /\ stack' = <<<<r.cmd>>>>
    /\ returned' = "-"
    /\ ret_to' = "check"
    /\ pc' = "command"
    /\ UNCHANGED <<ev, inflight, fetched, term, source>>

\* handle_command(..).await?
Check ==
    /\ pc = "check"
    /\ pc' = IF returned = "Err" THEN "io_error" ELSE "while"
    /\ UNCHANGED <<state, ev, cmd, stack, inflight, fetched, returned, ret_to, term, source>>

Init ==
    /\ state = NewState
    /\ pc = "while"
    /\ ev = NoEvent
    /\ cmd = NoCmd
    /\ stack = <<>>
    /\ inflight = <<>>
    /\ fetched = NoFetch
    /\ returned = "-"
    /\ ret_to = "check"
    /\ term = TermReady
    /\ source = Unscripted

Next ==
    \/ WhileCheck
    \/ Draw
    \/ Poll
    \/ Read
    \/ Input
    \/ CommandStep
    \/ QueryReturns
    \/ Check

Spec == Init /\ [][Next]_vars

----------------------------------------------------------------------------
\* handle_input on its own: any Session, any event, any number of calls.

InputSessions ==
    [is_running : BOOLEAN, mode : Modes, status : {Welcome, FailMsg("syntax error")},
     query : StrsUpTo(Chars, MaxLen), result : {<<>>, FormatRows(<<"PgRow#1">>)}]

CallHandleInput ==
    /\ pc = "call_input"
    /\ \E e \in Events :
          /\ Deliverable(state, e)
          /\ ev' = e
          /\ state' = HandleInput(state, e).state
          /\ cmd' = HandleInput(state, e).cmd
    /\ UNCHANGED <<pc, stack, inflight, fetched, returned, ret_to, term, source>>

InitInput ==
    /\ state \in InputSessions
    /\ pc = "call_input"
    /\ ev = NoEvent
    /\ cmd = NoCmd
    /\ stack = <<>>
    /\ inflight = <<>>
    /\ fetched = NoFetch
    /\ returned = "-"
    /\ ret_to = "call_input"
    /\ term = TermInit
    /\ source = Unscripted

NextInput == CallHandleInput

SpecInput == InitInput /\ [][NextInput]_vars

----------------------------------------------------------------------------
\* handle_command on its own: any Session, any command (handle_input builds no
\* Chain, so the run loop never executes one), any number of calls.

QueryTexts == {<<>>, <<"a">>}
Leaves == {Quit, None} \cup {RunQuery(t) : t \in QueryTexts}
\* Elements used where the nesting is deep.
FewLeaves == {Quit, RunQuery(<<"a">>)}
Commands ==
    Leaves
    \cup {Chain(<<>>)}
    \cup {Chain(<<a>>) : a \in Leaves}
    \cup {Chain(<<a, b>>) : a \in Leaves, b \in Leaves}
    \cup {Chain(<<Chain(<<a>>), b>>) : a \in Leaves, b \in Leaves}
    \cup {Chain(<<a, Chain(<<b, Chain(<<c>>)>>), a>>) :
             a \in FewLeaves, b \in FewLeaves, c \in FewLeaves}

CommandSessions ==
    [is_running : BOOLEAN, mode : Modes, status : {Welcome, FailMsg("syntax error")},
     query : QueryTexts, result : {<<>>, FormatRows(<<"PgRow#1">>)}]

CallHandleCommand ==
    /\ pc = "call_command"
    /\ \E c \in Commands :
          /\ cmd' = c
          /\ stack' = <<<<c>>>>
    /\ returned' = "-"
    /\ pc' = "command"
    /\ UNCHANGED <<state, ev, inflight, fetched, ret_to, term, source>>

InitCommand ==
    /\ state \in CommandSessions
    /\ pc = "call_command"
    /\ ev = NoEvent
    /\ cmd = NoCmd
    /\ stack = <<>>
    /\ inflight = <<>>
    /\ fetched = NoFetch
    /\ returned = "-"
    /\ ret_to = "call_command"
    /\ term = TermInit
    /\ source = Unscripted

NextCommand ==
    \/ CallHandleCommand
    \/ CommandStep
    \/ QueryReturns

SpecCommand == InitCommand /\ [][NextCommand]_vars

----------------------------------------------------------------------------
\* The run loop together with handle_input and handle_command on their own.  The
\* thread of control always takes its next step when that step waits for nothing
\* outside the program (the loop test, handle_input, a step of handle_command,
\* the `?`).

InitAll == Init \/ InitInput \/ InitCommand

NextAll ==
    \/ Next
    \/ CallHandleInput
    \/ CallHandleCommand

SpecAll ==
    /\ InitAll
    /\ [][NextAll]_vars
    /\ WF_vars(WhileCheck)
    /\ WF_vars(Input)
    /\ WF_vars(CommandStep)
    /\ WF_vars(Check)

----------------------------------------------------------------------------
\* Properties of handle_command

\* The step in which the awaited query client call returns a failure / a row sequence.
QueryFails == pc = "await" /\ pc' # "await" /\ ~fetched'.ok
QuerySucceeds == pc = "await" /\ pc' # "await" /\ fetched'.ok

\* C1: a RunQuery whose query client call fails leaves state.query exactly as it
\* was before the call, and leaves state.is_running and state.mode unchanged.
C1_FailedQueryKeepsBuffer ==
    [][QueryFails =>
          /\ state'.query = state.query
          /\ state'.is_running = state.is_running
          /\ state'.mode = state.mode]_vars

\* A query has just failed and the typed text is still in the buffer.
C1_Witness ==
    /\ fetched \in {FetchErr(e) : e \in Errors}
    /\ state.status = FailMsg(fetched.err)
    /\ state.query # <<>>

\* C2: a failure of the query client is captured and never propagated: the failing
\* step empties state.result, sets state.status to the failure message embedding
\* the error and hands no Err to the caller, at any depth of Chain nesting; every
\* outermost invocation returns Ok.
C2_FailureCaptured ==
    [][/\ QueryFails =>
             /\ state'.result = <<>>
             /\ state'.status = <<"Failed to run query: ", fetched'.err>>
             /\ returned' # "Err"
             /\ pc' = "command"
       /\ (pc \in {"command", "await"} /\ pc' = ret_to) => returned' = "Ok"]_vars

\* A query two Chains deep has just failed and its failure sits in the status.
C2_Witness ==
    /\ fetched \in {FetchErr(e) : e \in Errors}
    /\ state.status = FailMsg(fetched.err)
    /\ state.result = <<>>
    /\ pc = "command"
    /\ Len(stack) >= 3

\* C3: a RunQuery whose query client call succeeds sets state.result to the
\* formatted rows the client returned, state.status to the success message,
\* empties state.query, and leaves state.is_running and state.mode unchanged.
C3_SuccessfulQuery ==
    [][QuerySucceeds =>
          /\ state'.result = FormatRows(fetched'.rows)
          /\ (fetched'.rows = <<>> => state'.result = <<"[", "]">>)
          /\ (fetched'.rows = <<"PgRow#1">> => state'.result = <<"[", "PgRow#1", "]">>)
          /\ state'.status = <<"Query executed successfully">>
          /\ state'.query = <<>>
          /\ state'.is_running = state.is_running
          /\ state'.mode = state.mode]_vars

\* A query has just succeeded with a row, from a state whose buffer held text:
\* the rows are in the result and the buffer is empty.
C3_Witness ==
    /\ fetched = FetchOk(<<"PgRow#1">>)
    /\ state.status = SuccessMsg
    /\ state.result = FormatRows(<<"PgRow#1">>)
    /\ state.query = <<>>
    /\ inflight = <<"a">>

\* C4: state.is_running is a one-way latch: true when the run loop is entered;
\* once false, no event handled and no command executed (alone, in sequence or
\* nested in Chains) makes it true again; once false inside the run loop, the loop
\* draws, polls, reads and dispatches nothing further and terminates.
InRunLoop == ret_to = "check"
C4_RunningLatch ==
    /\ (InRunLoop => state.is_running)
    /\ [][/\ ~state.is_running => ~state'.is_running
          /\ (~state.is_running /\ InRunLoop) =>
                /\ pc' \in {"command", "check", "while", "done"}
                /\ ev' = ev
                /\ cmd' = cmd]_vars
    /\ ((~state.is_running /\ InRunLoop) ~> (pc = "done"))

\* The run loop has terminated after executing the Quit it was handed.
C4_Witness ==
    /\ InRunLoop
    /\ pc = "done"
    /\ ~state.is_running
    /\ cmd = Quit

----------------------------------------------------------------------------
\* Properties of handle_input.  In a step of SpecInput, state is the Session
\* handle_input is given, ev' the event, state' the Session it leaves and cmd'
\* the command it returns.

IsKey(e, code) == e.type = "Key" /\ e.code = code
IsChar(e, c) == IsKey(e, "Char") /\ e.ch = c

\* The Session after handle_input has handled the events of a sequence in order.
RECURSIVE Feed(_, _)
Feed(st, events) ==
    IF events = <<>> THEN st ELSE Feed(HandleInput(st, Head(events)).state, Tail(events))
\* The key presses that type a text.
Typing(text) == [i \in 1..Len(text) |-> Key("Char", text[i], "Press")]

\* C5: Enter in Insert mode, whatever the buffer holds (nothing included), sets mode
\* to Normal and returns one RunQuery whose payload is the buffer at that moment;
\* the buffer itself is not modified.
C5_EnterSubmits ==
    [][(IsKey(ev', "Enter") /\ state.mode = "Insert") =>
          /\ state'.mode = "Normal"
          /\ cmd'.tag = "RunQuery"
          /\ cmd'.text = state.query
          /\ cmd'.cmds = <<>>
          /\ state'.query = state.query]_vars

\* Enter has submitted a typed text that is still in the buffer.
C5_Witness ==
    /\ IsKey(ev, "Enter")
    /\ cmd = RunQuery(<<"a">>)
    /\ state.query = <<"a">>
    /\ state.mode = "Normal"

\* C6: a character key in Insert mode appends its character to the buffer, returns
\* None and leaves the mode Insert; hence after any sequence of character keys
\* c1..cn typed from buffer b the buffer is b followed by c1..cn, in that order.
C6_TypingAppends ==
    /\ [][(IsKey(ev', "Char") /\ state.mode = "Insert") =>
             /\ state'.query = state.query \o <<ev'.ch>>
             /\ cmd' = None
             /\ state'.mode = "Insert"]_vars
    /\ [](state.mode = "Insert" =>
             \A text \in StrsUpTo(Chars, MaxLen) :
                 /\ Feed(state, Typing(text)).query = state.query \o text
                 /\ Feed(state, Typing(text)).mode = "Insert")

\* The characters q and i have been typed, in that order, into the empty buffer.
C6_Witness ==
    /\ IsChar(ev, "i")
    /\ state.mode = "Insert"
    /\ state.query = <<"q", "i">>
    /\ cmd = None

\* C7: Backspace in Insert mode removes exactly the last character of a non-empty
\* buffer and leaves an empty buffer empty; it returns None and the mode stays Insert.
C7_Backspace ==
    [][(IsKey(ev', "Backspace") /\ state.mode = "Insert") =>
          /\ state.query = <<>> => state'.query = <<>>
          /\ state.query # <<>> =>
                /\ Len(state'.query) = Len(state.query) - 1
                /\ state.query = state'.query \o <<state.query[Len(state.query)]>>
          /\ cmd' = None
          /\ state'.mode = "Insert"]_vars

\* Backspace has been handled in Insert mode and a character is left in the buffer.
C7_Witness ==
    /\ IsKey(ev, "Backspace")
    /\ state.mode = "Insert"
    /\ Len(state.query) = 1
    /\ cmd = None

\* C8: the key i in Normal mode sets mode to Insert, returns None and leaves the
\* buffer unchanged; in Insert mode it is appended to the buffer as a character and
\* the mode stays Insert.
C8_KeyI ==
    [][/\ (IsChar(ev', "i") /\ state.mode = "Normal") =>
             /\ state'.mode = "Insert"
             /\ cmd' = None
             /\ state'.query = state.query
       /\ (IsChar(ev', "i") /\ state.mode = "Insert") =>
             /\ state'.mode = "Insert"
             /\ state'.query = state.query \o <<"i">>]_vars

\* The key i has switched to Insert mode over a buffer that held text before.
C8_Witness ==
    /\ IsChar(ev, "i")
    /\ state.mode = "Insert"
    /\ state.query = <<"a">>
    /\ cmd = None

\* C9: Escape in Insert mode sets mode to Normal, returns None and does not change
\* the buffer; when i is pressed next and characters are typed, they are appended
\* to the buffer that was retained.
C9_EscapeKeepsBuffer ==
    /\ [][(IsKey(ev', "Esc") /\ state.mode = "Insert") =>
             /\ state'.mode = "Normal"
             /\ cmd' = None
             /\ state'.query = state.query]_vars
    /\ [](state.mode = "Insert" =>
             \A text \in StrsUpTo(Chars, MaxLen) :
                 LET resumed == <<Key("Esc", "-", "Press"), Key("Char", "i", "Press")>>
                 IN  /\ Feed(state, resumed \o Typing(text)).query = state.query \o text
                     /\ Feed(state, resumed \o Typing(text)).mode = "Insert")

\* Escape has left Insert mode with text in the buffer.
C9_Witness ==
    /\ IsKey(ev, "Esc")
    /\ state.mode = "Normal"
    /\ state.query # <<>>
    /\ cmd = None

\* C10: an event that is not a key event, in either mode, and a key other than q
\* and i in Normal mode, make handle_input return None and change no field of the
\* Session.
Ignored(st, e) ==
    \/ e.type # "Key"
    \/ st.mode = "Normal" /\ ~IsChar(e, "q") /\ ~IsChar(e, "i")
C10_IgnoredInput ==
    [][(pc = "call_input" /\ Ignored(state, ev')) => (cmd' = None /\ state' = state)]_vars

\* A resize has been ignored in Insert mode with text in the buffer.
C10_Witness ==
    /\ ev = NonKey("Resize")
    /\ cmd = None
    /\ state.mode = "Insert"
    /\ state.query # <<>>

----------------------------------------------------------------------------
\* Properties of the run loop and of whole commands

\* The command handle_command is about to execute: the next element of the
\* innermost active loop, if that loop has one left.
AtElement == pc = "command" /\ stack # <<>> /\ stack[Len(stack)] # <<>>
Element == Head(stack[Len(stack)])
ExecutesQuit == AtElement /\ Element.tag = "Quit" /\ pc' = "command"

\* C11: q in Normal mode with is_running true makes handle_input return exactly
\* one Quit without changing is_running; handle_input changes is_running for no
\* event at all; is_running changes only when handle_command executes a Quit, and
\* after that q it does become false.
QuitKeyRead == InRunLoop /\ pc = "input" /\ IsChar(ev, "q") /\ state.mode = "Normal"
C11_QuitKey ==
    /\ [][/\ QuitKeyRead =>
                /\ state.is_running
                /\ cmd' = Quit
                /\ stack' = <<<<Quit>>>>
                /\ state' = state
          /\ pc \in {"input", "call_input"} => state'.is_running = state.is_running
          /\ state'.is_running # state.is_running => ExecutesQuit]_vars
    /\ (QuitKeyRead ~> ~state.is_running)

\* handle_input has returned the Quit for a q and is_running is still true.
C11_Witness ==
    /\ InRunLoop
    /\ pc = "command"
    /\ IsChar(ev, "q")
    /\ cmd = Quit
    /\ stack = <<<<Quit>>>>
    /\ state.is_running

\* The elements still to be executed, in the order of execution: the rest of the
\* innermost loop, then the rest of the loop around it, and so on outwards.
RECURSIVE Flatten(_)
Flatten(c) ==
    IF c.tag # "Chain" THEN <<c>>
    ELSE IF c.cmds = <<>> THEN <<>>
    ELSE Flatten(Head(c.cmds)) \o Flatten(Chain(Tail(c.cmds)))
RECURSIVE Remaining(_)
Remaining(frames) ==
    IF frames = <<>> THEN <<>>
    ELSE Flatten(Chain(frames[Len(frames)])) \o Remaining(SubSeq(frames, 1, Len(frames) - 1))

\* C12: a failing query inside a Chain does not abort the Chain: the failure
\* drops no element that was still to be executed and execution goes on; in
\* particular Chain([RunQuery(failing text), Quit]) ends with is_running false and
\* the failure message of the first element in status.
Returned == pc = "call_command" /\ returned = "Ok"
C12_ChainSurvivesFailure ==
    /\ [][QueryFails =>
             /\ stack' = stack
             /\ Remaining(stack') = Remaining(stack)
             /\ pc' = "command"]_vars
    /\ [](\A t \in QueryTexts :
             (Returned /\ cmd = Chain(<<RunQuery(t), Quit>>) /\ ~fetched.ok) =>
                 /\ ~state.is_running
                 /\ state.status = <<"Failed to run query: ", fetched.err>>)

\* The first element's query has failed and the Quit after it is still to be executed.
C12_Witness ==
    /\ cmd = Chain(<<RunQuery(<<"a">>), Quit>>)
    /\ fetched = FetchErr("syntax error")
    /\ state.status = FailMsg("syntax error")
    /\ state.is_running
    /\ AtElement
    /\ Element = Quit

\* C13: handle_command executes the elements of a Chain strictly in list order,
\* nested Chains included, each to completion before the next starts: what is
\* still to be executed starts as the elements of the command in order, every step
\* either leaves it alone or removes its first element and executes exactly that
\* one (a query is awaited and answered before anything else starts), and the
\* outermost invocation returns only when nothing is left.  An Err handed up by an
\* element is returned at once with the rest abandoned.
Leaf == Head(Remaining(stack))
C13_ChainInOrder ==
    [][/\ (pc = "call_command" /\ pc' = "command") => Remaining(stack') = Flatten(cmd')
       /\ (pc = "command" /\ pc' # ret_to) =>
             \/ /\ Remaining(stack') = Remaining(stack)
                /\ state' = state
                /\ pc' = "command"
             \/ /\ Remaining(stack) # <<>>
                /\ Remaining(stack') = Tail(Remaining(stack))
                /\ CASE Leaf.tag = "Quit" ->
                          /\ state' = [state EXCEPT !.is_running = FALSE]
                          /\ pc' = "command"
                     [] Leaf.tag = "RunQuery" ->
                          /\ state' = state
                          /\ inflight' = Leaf.text
                          /\ pc' = "await"
                     [] OTHER ->
                          /\ state' = state
                          /\ pc' = "command"
       /\ pc = "await" =>
             /\ returned' # "Err" => Remaining(stack') = Remaining(stack)
             /\ inflight' = inflight
             /\ \/ state' = [state EXCEPT !.result = FormatRows(fetched'.rows),
                                          !.status = SuccessMsg, !.query = <<>>]
                \/ state' = [state EXCEPT !.result = <<>>, !.status = FailMsg(fetched'.err)]
       /\ (pc = "command" /\ pc' = ret_to) =>
             /\ Remaining(stack) = <<>>
             /\ state' = state
             /\ returned' = "Ok"
       /\ (returned' = "Err" /\ returned # "Err") => (stack' = <<>> /\ pc' = ret_to)]_vars

\* Three Chains deep: the first two elements have been executed, the innermost
\* and the last are still to come, in that order.
C13_Witness ==
    /\ cmd = Chain(<<RunQuery(<<"a">>), Chain(<<Quit, Chain(<<Quit>>)>>), RunQuery(<<"a">>)>>)
    /\ Len(stack) = 4
    /\ Remaining(stack) = <<Quit, RunQuery(<<"a">>)>>
    /\ ~state.is_running
    /\ fetched # NoFetch
    /\ pc = "command"

\* C14: executing Quit sets is_running to false and changes no other field of the
\* Session; executed again it changes nothing, so Quit twice or more in a row
\* leaves the Session that one Quit leaves.
C14_QuitIdempotent ==
    [][ExecutesQuit =>
          /\ ~state'.is_running
          /\ state'.mode = state.mode
          /\ state'.query = state.query
          /\ state'.status = state.status
          /\ state'.result = state.result
          /\ ~state.is_running => state' = state]_vars

\* Two Quits in a row have been executed over a Session with text in the buffer.
C14_Witness ==
    /\ Returned
    /\ cmd = Chain(<<Quit, Quit>>)
    /\ ~state.is_running
    /\ state.query # <<>>
    /\ state.status = Welcome

----------------------------------------------------------------------------
\* The run loop fed the keys that compose and submit one query: i, the
\* characters of a text, Enter, and no event after them.

Submission(text) ==
    <<Key("Char", "i", "Press")>> \o Typing(text) \o <<Key("Enter", "-", "Press")>>

InitTyping ==
    /\ state = NewState
    /\ pc = "while"
    /\ ev = NoEvent
    /\ cmd = NoCmd
    /\ stack = <<>>
    /\ inflight = <<>>
    /\ fetched = NoFetch
    /\ returned = "-"
    /\ ret_to = "check"
    /\ term = TermReady
    /\ source \in {Scripted(Submission(text)) : text \in StrsUpTo(Chars, MaxLen)}

SpecTyping == InitTyping /\ [][Next]_vars

\* C15: through the run loop, from the initial Session, the keys i, the characters
\* of a text t, Enter: no key before the Enter issues a command other than None;
\* the query client is invoked only after the Enter, with t, while the buffer
\* holds t and the mode is Normal, and only if it has not been invoked before;
\* once the dispatch of the Enter is over it has been invoked and answered, and
\* the mode is Normal.
TypedText == [i \in 1..(Len(source.events) - 2) |-> source.events[i + 1].ch]
AllDelivered == source.next > Len(source.events)
Invoked == pc # "await" /\ pc' = "await"
C15_TypedQueryRunsOnce ==
    /\ [][/\ (pc = "input" /\ ~IsKey(ev, "Enter")) => cmd' = None
          /\ (pc = "input" /\ IsKey(ev, "Enter")) =>
                /\ cmd' = RunQuery(TypedText)
                /\ state'.query = TypedText
          /\ Invoked =>
                /\ fetched = NoFetch
                /\ AllDelivered
                /\ IsKey(ev, "Enter")
                /\ cmd = RunQuery(TypedText)
                /\ inflight' = TypedText
                /\ state.query = TypedText
                /\ state.mode = "Normal"]_vars
    /\ []((AllDelivered /\ pc \in {"check", "while", "draw", "poll"}) =>
             /\ fetched # NoFetch
             /\ inflight = TypedText
             /\ state.mode = "Normal")

\* The text qi has been typed and submitted, the client has been invoked with it
\* and has answered with rows.
C15_Witness ==
    /\ source = [Scripted(Submission(<<"q", "i">>)) EXCEPT !.next = 5]
    /\ pc = "while"
    /\ cmd = RunQuery(<<"q", "i">>)
    /\ inflight = <<"q", "i">>
    /\ fetched.ok
    /\ state.mode = "Normal"
    /\ state.query = <<>>

----------------------------------------------------------------------------
\* main, App::new, App::run and the Drop of App around the run loop

\* restore_terminal_state: disable_raw_mode()?, then execute!(LeaveAlternateScreen, ..)?.
RestoreOutcomes == {"ok", "raw_fails", "screen_fails"}
RestoreTerminalState(t, outcome) ==
    [t EXCEPT !.restored = @ + 1,
              !.raw = IF outcome = "raw_fails" THEN @ ELSE FALSE,
              !.alt = IF outcome = "ok" THEN FALSE ELSE @]

\* enable_raw_mode()?
EnableRawMode ==
    /\ pc = "enable_raw_mode"
    /\ \E ok \in BOOLEAN :
          IF ok THEN term' = [term EXCEPT !.raw = TRUE, !.enabled = @ + 1] /\ pc' = "enter_screen"
          ELSE term' = term /\ pc' = "exit_err"
    /\ UNCHANGED <<state, ev, cmd, stack, inflight, fetched, returned, ret_to, source>>

\* execute!(stdout, EnterAlternateScreen, EnableMouseCapture)?
EnterScreen ==
    /\ pc = "enter_screen"
    /\ \E ok \in BOOLEAN :
          IF ok THEN term' = [term EXCEPT !.alt = TRUE] /\ pc' = "new_terminal"
          ELSE term' = term /\ pc' = "exit_err"
    /\ UNCHANGED <<state, ev, cmd, stack, inflight, fetched, returned, ret_to, source>>

\* Terminal::new(backend)?
NewTerminal ==
    /\ pc = "new_terminal"
    /\ \E ok \in BOOLEAN : pc' = IF ok THEN "url" ELSE "exit_err"
    /\ UNCHANGED <<state, ev, cmd, stack, inflight, fetched, returned, ret_to, term, source>>

\* let Some(url) = args.url.as_ref() else { restore_terminal_state()?; return Err(..) }
UrlCheck ==
    /\ pc = "url"
    /\ \E given \in BOOLEAN :
          IF given THEN term' = term /\ pc' = "connect"
          ELSE \E outcome \in RestoreOutcomes :
                  term' = RestoreTerminalState(term, outcome) /\ pc' = "exit_err"
    /\ UNCHANGED <<state, ev, cmd, stack, inflight, fetched, returned, ret_to, source>>

\* PgPool::connect(url).await.expect(..): a failure to connect panics.
Connect ==
    /\ pc = "connect"
    /\ \E ok \in BOOLEAN : pc' = IF ok THEN "run" ELSE "panic"
    /\ UNCHANGED <<state, ev, cmd, stack, inflight, fetched, returned, ret_to, term, source>>

\* App::run: State::new, then run_app.
Run ==
    /\ pc = "run"
    /\ state' = NewState
    /\ pc' = "while"
    /\ UNCHANGED <<ev, cmd, stack, inflight, fetched, returned, ret_to, term, source>>

\* run_app has returned and App::run drops self: restore_terminal_state().expect(..)
DropApp ==
    /\ pc \in {"done", "io_error"}
    /\ \E outcome \in RestoreOutcomes :
          /\ term' = RestoreTerminalState(term, outcome)
          /\ pc' = IF outcome # "ok" THEN "panic"
                   ELSE IF pc = "done" THEN "exit_ok" ELSE "exit_err"
    /\ UNCHANGED <<state, ev, cmd, stack, inflight, fetched, returned, ret_to, source>>

InitMain ==
    /\ state = NewState
    /\ pc = "enable_raw_mode"
    /\ ev = NoEvent
    /\ cmd = NoCmd
    /\ stack = <<>>
    /\ inflight = <<>>
    /\ fetched = NoFetch
    /\ returned = "-"
    /\ ret_to = "check"
    /\ term = TermInit
    /\ source = Unscripted

NextMain ==
    \/ EnableRawMode
    \/ EnterScreen
    \/ NewTerminal
    \/ UrlCheck
    \/ Connect
    \/ Run
    \/ Next
    \/ DropApp

SpecMain == InitMain /\ [][NextMain]_vars

\* C16: on every exit of the program after raw mode was enabled (normal quit, I/O
\* failure out of the run loop, missing URL, failure of a later step of App::new,
\* failure to connect), restore_terminal_state has run exactly once.
Exited == pc \in {"exit_ok", "exit_err", "panic"}
C16_RestoredExactlyOnce == (Exited /\ term.enabled > 0) => term.restored = 1

----------------------------------------------------------------------------
\* Properties of the run loop

\* The run loop is between two dispatches.
BetweenDispatches == pc \in {"while", "draw", "poll", "read"}
LastQueryFailed == fetched \in {FetchErr(e) : e \in Errors}
TextInNormal(st) == st.mode = "Normal" /\ st.query # <<>>

\* C17, as stated: whenever mode is Normal, the buffer is empty unless the most
\* recently executed RunQuery failed.
C17_BufferOnlyWhileComposing ==
    (BetweenDispatches /\ TextInNormal(state)) => LastQueryFailed

\* C17, amended: text is in the buffer in Normal mode only after Insert mode was
\* left with Escape, or with an Enter whose RunQuery has not succeeded: Normal mode
\* with text is entered only by Escape or Enter in Insert mode, which leave the
\* buffer as typed; in Normal mode the buffer changes only by a successful
\* RunQuery emptying it; when the dispatch of an Enter is over, the buffer is
\* empty unless that RunQuery failed, and then it is the text submitted.
C17_BufferAfterLeavingInsert ==
    /\ [][/\ (~TextInNormal(state) /\ TextInNormal(state')) =>
                /\ pc = "input"
                /\ state.mode = "Insert"
                /\ IsKey(ev, "Esc") \/ IsKey(ev, "Enter")
                /\ state'.query = state.query
          /\ (state.mode = "Normal" /\ state'.query # state.query) =>
                /\ QuerySucceeds
                /\ state'.query = <<>>]_vars
    /\ []((pc = "check" /\ IsKey(ev, "Enter") /\ cmd.tag = "RunQuery" /\ state.query # <<>>) =>
             /\ LastQueryFailed
             /\ state.query = cmd.text)

\* Escape has left Insert mode with text in the buffer after a query that succeeded.
C17_Witness ==
    /\ BetweenDispatches
    /\ TextInNormal(state)
    /\ IsKey(ev, "Esc")
    /\ fetched.ok

\* C18: the run loop is one thread of control: a command is in execution only
\* while the loop is inside handle_command; an event is read and a command is
\* handed over only when none is in execution; while a query is in flight nothing
\* is read, nothing is dispatched, and the Session changes only by the answer.
C18_OneThingAtATime ==
    /\ [](stack # <<>> => pc \in {"command", "await"})
    /\ [][/\ ev' # ev => (pc = "read" /\ stack = <<>>)
          /\ cmd' # cmd => (pc = "input" /\ stack = <<>>)
          /\ pc \in {"command", "await"} => (ev' = ev /\ cmd' = cmd /\ source' = source)
          /\ pc = "await" =>
                /\ pc' \in {"await", "command"}
                /\ state' # state => fetched' \in Responses
                /\ stack' = stack]_vars

\* A query is in flight in the run loop.
C18_Witness ==
    /\ InRunLoop
    /\ pc = "await"
    /\ IsKey(ev, "Enter")
    /\ cmd = RunQuery(<<"a">>)
    /\ stack = <<<<>>>>

\* C19: when the run loop executes a RunQuery and while the query client is at
\* work on it, the payload is the buffer and the mode is Normal; the buffer a
\* success empties is the text that was submitted.
C19_PayloadIsBuffer ==
    /\ []((AtElement /\ Element.tag = "RunQuery") =>
             (Element.text = state.query /\ state.mode = "Normal"))
    /\ [](pc = "await" =>
             (inflight = state.query /\ cmd = RunQuery(inflight) /\ state.mode = "Normal"))
    /\ [][QuerySucceeds => (state.query = inflight /\ state'.query = <<>>)]_vars

\* The client is at work on the two characters typed.
C19_Witness ==
    /\ InRunLoop
    /\ pc = "await"
    /\ inflight = <<"a", "q">>
    /\ state.query = <<"a", "q">>
    /\ state.mode = "Normal"

\* C20: handle_input returns one command per event, never a Chain: Quit exactly
\* for q in Normal mode, RunQuery exactly for Enter in Insert mode, None otherwise;
\* so in the run loop is_running changes only by executing the Quit of a q read in
\* Normal mode (a q in Insert mode is appended to the buffer and returns None), and
\* status and result change only by the answer to the RunQuery of an Enter.
C20_OneCommandPerEvent ==
    [][/\ pc = "input" =>
             /\ cmd'.tag \in {"Quit", "RunQuery", "None"}
             /\ cmd' = Quit <=> (IsChar(ev, "q") /\ state.mode = "Normal")
             /\ cmd'.tag = "RunQuery" <=> (IsKey(ev, "Enter") /\ state.mode = "Insert")
             /\ stack' = <<<<cmd'>>>>
       /\ (pc = "input" /\ IsChar(ev, "q") /\ state.mode = "Insert") =>
             /\ state'.query = state.query \o <<"q">>
             /\ cmd' = None
             /\ state'.is_running = state.is_running
       /\ state'.is_running # state.is_running =>
             /\ ExecutesQuit
             /\ IsChar(ev, "q")
             /\ cmd = Quit
             /\ state.mode = "Normal"
       /\ (state'.status # state.status \/ state'.result # state.result) =>
             /\ pc = "await"
             /\ IsKey(ev, "Enter")
             /\ cmd.tag = "RunQuery"]_vars

\* A q typed in Insert mode sits in the buffer and the loop goes on.
C20_Witness ==
    /\ InRunLoop
    /\ pc = "while"
    /\ IsChar(ev, "q")
    /\ state.mode = "Insert"
    /\ state.query = <<"q">>
    /\ cmd = None
    /\ state.is_running

====
